---- MODULE Spec2Model ----
(***************************************************************************)
(* zsling: a sequentially locking ring buffer (SPMC queue).                *)
(*                                                                         *)
(* src/src/lib.rs is the Rust wrapper: the struct layouts, try_lock,       *)
(* reader, push_back, pop_front and Drop for WriteGuard.  The six extern   *)
(* "C" functions it links against (new_buffer, lock_buffer, get_reader,    *)
(* push_back, pop_front, drop_wg) live in the static library `main`, whose *)
(* source is not part of src/; their steps follow spec.md sections 4.1 to  *)
(* 4.4.                                                                    *)
(***************************************************************************)
EXTENDS Integers, Sequences, FiniteSets, TLC

\* ------------------------------------------------------------------ bounds
\* data: [Block; 256] in the source; the model runs a smaller ring so that
\* wrap-around and overrun happen within MaxPush appends.
Capacity == 2
\* Total number of push_back calls in a behaviour.
MaxPush == 3

\* ------------------------------------------------------------- constants
\* message: [u8; 8]
MsgLen == 8
\* one u8
ByteMod == 256
\* a u64 is held as four 16-bit limbs, least significant first
LimbMod == ByteMod * ByteMod
LimbCount == MsgLen \div 2

Writers == {"w1", "w2"}
Readers == {"r1", "r2"}
CursorIds == {"c1", "c2"}
NoCursor == "none"

\* The payloads callers push: the one of tests::it_works and the all-0xFF one.
MsgA == <<0, 1, 2, 3, 4, 5, 6, 7>>
MsgFF == <<255, 255, 255, 255, 255, 255, 255, 255>>
Payloads == {MsgA, MsgFF}

\* ------------------------------------------------- [u8; 8] <-> u64 (limbs)
\* core::mem::transmute::<[u8; 8], u64>: bytes 2i-1, 2i make limb i
\* (little endian).
BytesToU64(b) == [i \in 1..LimbCount |-> b[2 * i - 1] + ByteMod * b[2 * i]]

\* core::mem::transmute::<u64, [u8; 8]>
U64ToBytes(x) ==
    [k \in 1..MsgLen |->
        IF k % 2 = 1 THEN x[(k + 1) \div 2] % ByteMod
                     ELSE x[k \div 2] \div ByteMod]

\* u64::MAX
U64Max == [i \in 1..LimbCount |-> LimbMod - 1]
\* the zeroed payload of a new buffer
U64Zero == [i \in 1..LimbCount |-> 0]

\* ----------------------------------------------------------------- state
VARIABLES
    locked,     \* RingBuffer.locked
    index,      \* RingBuffer.index   (the write cursor)
    version,    \* RingBuffer.version (the generation)
    data,       \* RingBuffer.data: slot -> Block {version, message}
    guards,     \* writer -> the number of live WriteGuards it owns
    wpc,        \* writer -> its position inside push_back
    wmsg,       \* writer -> the u64 it is pushing
    made,       \* the cursor ids that name a SharedReader that exists
    cursors,    \* cursor id -> SharedReader {index, version}
    rpc,        \* reader -> its position inside pop_front
    rcur,       \* reader -> the cursor it is popping from
    rloc,       \* reader -> the {index, version} pair it loaded
    robs,       \* reader -> the stamp it observed
    rraw,       \* reader -> the u64 it read from the slot
    rres,       \* reader -> whether this pop_front call resynchronized
    rsince,     \* reader -> since[cursor] when this pop_front call began
    rcnt,       \* reader -> stamp comparisons this pop_front call has made
    rquiet,     \* reader -> no push_back step ran during this pop_front call
    ret,        \* thread -> what its last completed call returned
    pushed,     \* history: pushed[g] is the [u8; 8] pushed as generation g
    hist,       \* history: cursor id -> the messages consumed through it, in
                \* order: gen (the stamp observed), raw (the u64 read), by (the
                \* thread), out (what pop_front returned), resync (the call
                \* resynchronized), over (the call began after more than
                \* Capacity pushes without a pop), recent (gen was among the
                \* last Capacity generations when the call returned)
    born,       \* history: cursor id -> how it came to be
    users,      \* history: cursor id -> the readers that popped through it
    since,      \* history: cursor id -> pushes (increments of the generation)
                \* since its last pop_front call returned, or since it was made
    most        \* history: cursor id -> the largest `since` it ever had

bufvars == <<locked, index, version, data>>
wvars == <<guards, wpc, wmsg>>
cvars == <<made, cursors>>
rvars == <<rpc, rcur, rloc, robs, rraw, rres, rsince, rcnt, rquiet>>
ghost == <<pushed, hist, born, users, since, most>>
vars == <<locked, index, version, data, guards, wpc, wmsg, made, cursors,
          rpc, rcur, rloc, robs, rraw, rres, rsince, rcnt, rquiet, ret,
          pushed, hist, born, users, since, most>>

Slots == 0..(Capacity - 1)
Threads == Writers \cup Readers

\* What a call returned: ok is Ok/Some (TRUE) or Err/None (FALSE); val is the
\* [u8; 8] of a Some, <<>> otherwise.
Ret(op, ok, val) == [op |-> op, ok |-> ok, val |-> val]
NoRet == Ret("none", FALSE, <<>>)

\* ---------------------------------------------------------- construction
\* new_buffer(): everything zero.
new_buffer ==
    [index |-> 0, version |-> 0, locked |-> FALSE,
     data |-> [s \in Slots |-> [version |-> 0, message |-> U64Zero]]]

Init ==
    /\ locked = new_buffer.locked
    /\ index = new_buffer.index
    /\ version = new_buffer.version
    /\ data = new_buffer.data
    /\ guards = [w \in Writers |-> 0]
    /\ wpc = [w \in Writers |-> "idle"]
    /\ wmsg = [w \in Writers |-> U64Zero]
    /\ made = {}
    /\ cursors = [c \in CursorIds |-> [index |-> 0, version |-> 0]]
    /\ rpc = [r \in Readers |-> "idle"]
    /\ rcur = [r \in Readers |-> NoCursor]
    /\ rloc = [r \in Readers |-> [index |-> 0, version |-> 0]]
    /\ robs = [r \in Readers |-> 0]
    /\ rraw = [r \in Readers |-> U64Zero]
    /\ rres = [r \in Readers |-> FALSE]
    /\ rsince = [r \in Readers |-> 0]
    /\ rcnt = [r \in Readers |-> 0]
    /\ rquiet = [r \in Readers |-> TRUE]
    /\ ret = [t \in Threads |-> NoRet]
    /\ pushed = <<>>
    /\ hist = [c \in CursorIds |-> <<>>]
    /\ born = [c \in CursorIds |-> [how |-> "none", at |-> 0, from |-> NoCursor,
                                    npops |-> 0]]
    /\ users = [c \in CursorIds |-> {}]
    /\ since = [c \in CursorIds |-> 0]
    /\ most = [c \in CursorIds |-> 0]

\* ------------------------------------------------------ lock arbitration
\* lock_buffer(rb): one compare-and-swap of `locked` from false to true.
lock_buffer(lk) ==
    IF lk THEN [tag |-> "Error", locked |-> lk]
          ELSE [tag |-> "Success", locked |-> TRUE]

\* A match whose catch-all arm also hands out the guard of the union.
try_lock_match_any(res) == "Ok"

\* The match of RingBuffer::try_lock on the LockResult.
try_lock_match(res) ==
    IF res.tag = "Success" THEN "Ok" ELSE "Err"

\* A try_lock that takes the guard out of the union before it looks at the
\* tag: on Error the guard it made up is dropped, and drop_wg unlocks.
try_lock_drops(w) ==
    /\ wpc[w] = "idle"
    /\ LET res == lock_buffer(locked)
           out == try_lock_match(res)
       IN /\ locked' = IF out = "Ok" THEN res.locked ELSE FALSE
          /\ guards' = IF out = "Ok" THEN [guards EXCEPT ![w] = @ + 1]
                                     ELSE guards
          /\ ret' = [ret EXCEPT ![w] = Ret("try_lock", out = "Ok", <<>>)]
    /\ UNCHANGED <<index, version, data, wpc, wmsg, cvars, rvars, ghost>>

\* A try_lock whose new guard starts over at slot 0: the write cursor is
\* rewound on every acquisition.
try_lock_rewinds(w) ==
    /\ wpc[w] = "idle"
    /\ LET res == lock_buffer(locked)
           out == try_lock_match(res)
       IN /\ locked' = res.locked
          /\ guards' = IF out = "Ok" THEN [guards EXCEPT ![w] = @ + 1]
                                     ELSE guards
          /\ index' = IF out = "Ok" THEN 0 ELSE index
          /\ ret' = [ret EXCEPT ![w] = Ret("try_lock", out = "Ok", <<>>)]
    /\ UNCHANGED <<version, data, wpc, wmsg, cvars, rvars, ghost>>

\* RingBuffer::try_lock(&self): any thread, also one that holds the guard
\* already (tests::it_works does).
try_lock(w) ==
    /\ wpc[w] = "idle"
    /\ LET res == lock_buffer(locked)
           out == try_lock_match(res)
       IN /\ locked' = res.locked
          /\ guards' = IF out = "Ok" THEN [guards EXCEPT ![w] = @ + 1]
                                     ELSE guards
          /\ ret' = [ret EXCEPT ![w] = Ret("try_lock", out = "Ok", <<>>)]
    /\ UNCHANGED <<index, version, data, wpc, wmsg, cvars, rvars, ghost>>

\* drop_wg(wg): one store of false to `locked`.
drop_wg(lk) == FALSE

\* A WriteGuard without the Drop impl: the guard goes away, drop_wg never
\* runs.
WriteGuardDrop_leak(w) ==
    /\ guards[w] > 0
    /\ wpc[w] = "idle"
    /\ guards' = [guards EXCEPT ![w] = @ - 1]
    /\ ret' = [ret EXCEPT ![w] = Ret("drop", TRUE, <<>>)]
    /\ UNCHANGED <<locked, index, version, data, wpc, wmsg, cvars, rvars, ghost>>

\* impl Drop for WriteGuard: the guard goes away and drop_wg runs.  A guard
\* cannot be dropped while push_back borrows it.
WriteGuardDrop(w) ==
    /\ guards[w] > 0
    /\ wpc[w] = "idle"
    /\ guards' = [guards EXCEPT ![w] = @ - 1]
    /\ locked' = drop_wg(locked)
    /\ ret' = [ret EXCEPT ![w] = Ret("drop", TRUE, <<>>)]
    /\ UNCHANGED <<index, version, data, wpc, wmsg, cvars, rvars, ghost>>

\* ----------------------------------------------------------------- writer
\* The slot an index names.
SlotOf(i) == i % Capacity

\* The history's count of pushes, kept up to one past the capacity.
Bump(n) == IF n > Capacity THEN n ELSE n + 1
Max(a, b) == IF a >= b THEN a ELSE b

\* A step of push_back runs: the pop_front calls under way are no longer
\* undisturbed.
rcall == <<rpc, rcur, rloc, robs, rraw, rres, rsince, rcnt>>
Disturb == rquiet' = [r \in Readers |-> rpc[r] = "idle"]

\* WriteGuard::push_back(&mut self, val): the u64 handed to push_back.
push_back_arg(val) == BytesToU64(val)

\* The halves of a u64 store that the target may split in two.
LowHalf == 1..(LimbCount \div 2)
StoreLow(old, new) == [i \in 1..LimbCount |-> IF i \in LowHalf THEN new[i] ELSE old[i]]

\* push_back, step 1: the call, and the low half of the payload goes into
\* slots[writeCursor mod capacity].  A run makes at most `limit` calls.
push_begin(w, val, limit) ==
    /\ guards[w] > 0
    /\ wpc[w] = "idle"
    /\ Len(pushed) < limit
    /\ LET x == push_back_arg(val)
           s == SlotOf(index)
       IN /\ wmsg' = [wmsg EXCEPT ![w] = x]
          /\ data' = [data EXCEPT ![s].message = StoreLow(@, x)]
    /\ wpc' = [wpc EXCEPT ![w] = "hi"]
    /\ pushed' = Append(pushed, val)
    /\ UNCHANGED <<locked, index, version, guards, cvars, rcall, ret, hist, born, users,
                   since, most>>
    /\ Disturb

push_lo(w, val) == push_begin(w, val, MaxPush)

\* push_back, step 2: the rest of the payload.
push_hi(w) ==
    /\ wpc[w] = "hi"
    /\ data' = [data EXCEPT ![SlotOf(index)].message = wmsg[w]]
    /\ wpc' = [wpc EXCEPT ![w] = "stamp"]
    /\ UNCHANGED <<locked, index, version, guards, wmsg, cvars, rcall, ret, ghost>>
    /\ Disturb

\* push_back, step 3 (after the write barrier): stamp = generation + 1.
push_stamp(w) ==
    /\ wpc[w] = "stamp"
    /\ data' = [data EXCEPT ![SlotOf(index)].version = version + 1]
    /\ wpc' = [wpc EXCEPT ![w] = "ver"]
    /\ UNCHANGED <<locked, index, version, guards, wmsg, cvars, rcall, ret, ghost>>
    /\ Disturb

\* push_back, step 4: generation += 1.
push_ver(w) ==
    /\ wpc[w] = "ver"
    /\ version' = version + 1
    /\ wpc' = [wpc EXCEPT ![w] = "idx"]
    /\ since' = [c \in CursorIds |-> IF c \in made THEN Bump(since[c]) ELSE since[c]]
    /\ most' = [c \in CursorIds |-> IF c \in made THEN Max(most[c], Bump(since[c]))
                                                   ELSE most[c]]
    /\ UNCHANGED <<locked, index, data, guards, wmsg, cvars, rcall, ret,
                   pushed, hist, born, users>>
    /\ Disturb

\* push_back, step 5: writeCursor += 1, and the call returns.
push_idx(w) ==
    /\ wpc[w] = "idx"
    /\ index' = index + 1
    /\ wpc' = [wpc EXCEPT ![w] = "idle"]
    /\ wmsg' = [wmsg EXCEPT ![w] = U64Zero]
    /\ ret' = [ret EXCEPT ![w] = Ret("push_back", TRUE, <<>>)]
    /\ UNCHANGED <<locked, version, data, guards, cvars, rcall, ghost>>
    /\ Disturb

\* ---------------------------------------------------------------- readers
\* get_reader(rb): the cursor starts at the buffer's generation and the
\* read index that goes with it.
get_reader(v) == [index |-> v, version |-> v]

\* A reader() that builds the SharedReader zeroed instead of asking
\* get_reader for the buffer's position.
reader_zeroed(r, c) ==
    /\ rpc[r] = "idle"
    /\ c \notin made
    /\ made' = made \cup {c}
    /\ cursors' = [cursors EXCEPT ![c] = [index |-> 0, version |-> 0]]
    /\ born' = [born EXCEPT ![c] =
                  [how |-> "reader", at |-> version, from |-> NoCursor, npops |-> 0]]
    /\ ret' = [ret EXCEPT ![r] = Ret("reader", TRUE, <<>>)]
    /\ UNCHANGED <<bufvars, wvars, rvars, pushed, hist, users, since, most>>

\* A reader() that hands the buffer to lock_buffer on its way: the cast of
\* &self to a *mut RingBuffer lets it, and the flag is written.
reader_locks(r, c) ==
    /\ rpc[r] = "idle"
    /\ c \notin made
    /\ locked' = lock_buffer(locked).locked
    /\ made' = made \cup {c}
    /\ cursors' = [cursors EXCEPT ![c] = get_reader(version)]
    /\ born' = [born EXCEPT ![c] =
                  [how |-> "reader", at |-> version, from |-> NoCursor, npops |-> 0]]
    /\ ret' = [ret EXCEPT ![r] = Ret("reader", TRUE, <<>>)]
    /\ UNCHANGED <<index, version, data, wvars, rvars, pushed, hist, users, since, most>>

\* A reader() that starts the cursor one past the buffer's generation, at
\* the message the writer has yet to push.
reader_next(r, c) ==
    /\ rpc[r] = "idle"
    /\ c \notin made
    /\ made' = made \cup {c}
    /\ cursors' = [cursors EXCEPT ![c] = get_reader(version + 1)]
    /\ born' = [born EXCEPT ![c] =
                  [how |-> "reader", at |-> version, from |-> NoCursor, npops |-> 0]]
    /\ ret' = [ret EXCEPT ![r] = Ret("reader", TRUE, <<>>)]
    /\ UNCHANGED <<bufvars, wvars, rvars, pushed, hist, users, since, most>>

\* RingBuffer::reader(&self)
reader(r, c) ==
    /\ rpc[r] = "idle"
    /\ c \notin made
    /\ made' = made \cup {c}
    /\ cursors' = [cursors EXCEPT ![c] = get_reader(version)]
    /\ born' = [born EXCEPT ![c] =
                  [how |-> "reader", at |-> version, from |-> NoCursor, npops |-> 0]]
    /\ ret' = [ret EXCEPT ![r] = Ret("reader", TRUE, <<>>)]
    /\ UNCHANGED <<bufvars, wvars, rvars, pushed, hist, users, since, most>>

\* clone(cursor): a snapshot of the pair into a cursor of its own.
clone(r, c, d) ==
    /\ rpc[r] = "idle"
    /\ c \in made
    /\ d \notin made
    /\ made' = made \cup {d}
    /\ cursors' = [cursors EXCEPT ![d] = cursors[c]]
    /\ born' = [born EXCEPT ![d] =
                  [how |-> "clone", at |-> cursors[c].version, from |-> c,
                   npops |-> Len(hist[c])]]
    /\ ret' = [ret EXCEPT ![r] = Ret("clone", TRUE, <<>>)]
    /\ since' = [since EXCEPT ![d] = since[c]]
    /\ most' = [most EXCEPT ![d] = since[c]]
    /\ UNCHANGED <<bufvars, wvars, rvars, pushed, hist, users>>

\* A pop_front call returns: the thread's locals are gone.
Return(r) ==
    /\ rpc' = [rpc EXCEPT ![r] = "idle"]
    /\ rcur' = [rcur EXCEPT ![r] = NoCursor]
    /\ rloc' = [rloc EXCEPT ![r] = [index |-> 0, version |-> 0]]
    /\ rres' = [rres EXCEPT ![r] = FALSE]
    /\ rsince' = [rsince EXCEPT ![r] = 0]
    /\ rcnt' = [rcnt EXCEPT ![r] = 0]
    /\ rquiet' = [rquiet EXCEPT ![r] = TRUE]

\* SharedReader::pop_front(&self): the match on the u64 that came back.
pop_front_match(res) ==
    IF res = U64Max THEN Ret("pop_front", FALSE, <<>>)
                    ELSE Ret("pop_front", TRUE, U64ToBytes(res))

\* pop_front, step 1: the call, and the load of the cursor's pair.
pop_load(r, c) ==
    /\ rpc[r] = "idle"
    /\ c \in made
    /\ rcur' = [rcur EXCEPT ![r] = c]
    /\ rloc' = [rloc EXCEPT ![r] = cursors[c]]
    /\ rres' = [rres EXCEPT ![r] = FALSE]
    /\ rsince' = [rsince EXCEPT ![r] = since[c]]
    /\ rpc' = [rpc EXCEPT ![r] = "stamp"]
    /\ users' = [users EXCEPT ![c] = @ \cup {r}]
    /\ UNCHANGED <<bufvars, wvars, cvars, robs, rraw, rcnt, rquiet, ret, pushed, hist,
                   born, since, most>>

\* pop_front, steps 2 and 3: the stamp of slots[readIndex mod capacity] is
\* read and compared with expectedGeneration + 1.  Less: Empty comes back
\* (the u64 that stands for it) and nothing advances.
pop_stamp(r) ==
    /\ rpc[r] = "stamp"
    /\ LET obs == data[SlotOf(rloc[r].index)].version
       IN IF obs = rloc[r].version + 1
            THEN /\ robs' = [robs EXCEPT ![r] = obs]
                 /\ rpc' = [rpc EXCEPT ![r] = "read"]
                 /\ rcnt' = [rcnt EXCEPT ![r] = @ + 1]
                 /\ UNCHANGED <<rcur, rloc, rres, rsince, rquiet, ret, since>>
            ELSE IF obs <= rloc[r].version
              THEN /\ Return(r)
                   /\ robs' = [robs EXCEPT ![r] = 0]
                   /\ ret' = [ret EXCEPT ![r] = pop_front_match(U64Max)]
                   /\ since' = [since EXCEPT ![rcur[r]] = 0]
              ELSE /\ robs' = [robs EXCEPT ![r] = obs]
                   /\ rpc' = [rpc EXCEPT ![r] = "resync"]
                   /\ rcnt' = [rcnt EXCEPT ![r] = @ + 1]
                   /\ UNCHANGED <<rcur, rloc, rres, rsince, rquiet, ret, since>>
    /\ UNCHANGED <<bufvars, wvars, cvars, rraw, pushed, hist, born, users, most>>

\* pop_front, equal branch: the payload is read.
pop_read(r) ==
    /\ rpc[r] = "read"
    /\ rraw' = [rraw EXCEPT ![r] = data[SlotOf(rloc[r].index)].message]
    /\ rpc' = [rpc EXCEPT ![r] = "claim"]
    /\ UNCHANGED <<bufvars, wvars, cvars, rcur, rloc, robs, rres, rsince, rcnt, rquiet,
                   ret, ghost>>

\* pop_front, equal branch: the compare-and-swap of the pair to one further.
\* Won: the payload comes back.  Lost: again from step 1 with the pair found.
pop_claim(r) ==
    /\ rpc[r] = "claim"
    /\ LET c == rcur[r]
           out == pop_front_match(rraw[r])
       IN IF cursors[c] = rloc[r]
            THEN /\ cursors' = [cursors EXCEPT ![c] =
                                  [index |-> @.index + 1, version |-> @.version + 1]]
                 /\ hist' = [hist EXCEPT ![c] = Append(@,
                               [gen |-> robs[r], raw |-> rraw[r], by |-> r,
                                out |-> out, resync |-> rres[r],
                                over |-> rsince[r] > Capacity,
                                recent |-> robs[r] + Capacity > version])]
                 /\ ret' = [ret EXCEPT ![r] = out]
                 /\ Return(r)
                 /\ robs' = [robs EXCEPT ![r] = 0]
                 /\ rraw' = [rraw EXCEPT ![r] = U64Zero]
                 /\ since' = [since EXCEPT ![c] = 0]
            ELSE /\ rloc' = [rloc EXCEPT ![r] = cursors[c]]
                 /\ rpc' = [rpc EXCEPT ![r] = "stamp"]
                 /\ robs' = [robs EXCEPT ![r] = 0]
                 /\ rraw' = [rraw EXCEPT ![r] = U64Zero]
                 /\ UNCHANGED <<cursors, hist, ret, rcur, rres, rsince, rcnt, rquiet,
                                since>>
    /\ UNCHANGED <<bufvars, wvars, made, pushed, born, users, most>>

\* pop_front, greater branch: the pair is set to the slot and generation of
\* observedStamp - 1 (one compare-and-swap), and the comparison is retried.
pop_resync(r) ==
    /\ rpc[r] = "resync"
    /\ LET c == rcur[r]
           new == [index |-> robs[r] - 1, version |-> robs[r] - 1]
       IN IF cursors[c] = rloc[r]
            THEN /\ cursors' = [cursors EXCEPT ![c] = new]
                 /\ rloc' = [rloc EXCEPT ![r] = new]
                 /\ rres' = [rres EXCEPT ![r] = TRUE]
            ELSE /\ rloc' = [rloc EXCEPT ![r] = cursors[c]]
                 /\ UNCHANGED <<cursors, rres>>
    /\ rpc' = [rpc EXCEPT ![r] = "stamp"]
    /\ robs' = [robs EXCEPT ![r] = 0]
    /\ UNCHANGED <<bufvars, wvars, made, rcur, rraw, rsince, rcnt, rquiet, ret, ghost>>

\* A push_back that waits for room: it does not begin while a cursor still
\* has the message of the slot it is about to overwrite to read.
Write_full(w) ==
    \/ /\ \A c \in made : version - cursors[c].version < Capacity
       /\ \E val \in Payloads : push_lo(w, val)
    \/ push_hi(w)
    \/ push_stamp(w)
    \/ push_ver(w)
    \/ push_idx(w)

\* ------------------------------------------------------------------- spec
\* One push_back call of writer w, step by step.
Write(w) ==
    \/ \E val \in Payloads : push_lo(w, val)
    \/ push_hi(w)
    \/ push_stamp(w)
    \/ push_ver(w)
    \/ push_idx(w)

\* A pop_front whose claim is a plain store of the pair one further than
\* the pair it loaded, with no compare-and-swap against the other threads
\* of the cursor.
pop_claim_blind(r) ==
    /\ rpc[r] = "claim"
    /\ LET c == rcur[r]
           out == pop_front_match(rraw[r])
       IN /\ cursors' = [cursors EXCEPT ![c] =
                           [index |-> rloc[r].index + 1,
                            version |-> rloc[r].version + 1]]
          /\ hist' = [hist EXCEPT ![c] = Append(@,
                        [gen |-> robs[r], raw |-> rraw[r], by |-> r,
                         out |-> out, resync |-> rres[r],
                         over |-> rsince[r] > Capacity,
                         recent |-> robs[r] + Capacity > version])]
          /\ ret' = [ret EXCEPT ![r] = out]
          /\ Return(r)
          /\ robs' = [robs EXCEPT ![r] = 0]
          /\ rraw' = [rraw EXCEPT ![r] = U64Zero]
          /\ since' = [since EXCEPT ![c] = 0]
    /\ UNCHANGED <<bufvars, wvars, made, pushed, born, users, most>>

Pop_blind(r, c) ==
    \/ pop_load(r, c)
    \/ pop_stamp(r)
    \/ pop_read(r)
    \/ pop_claim_blind(r)
    \/ pop_resync(r)

\* One pop_front call of reader r through cursor c, step by step.
Pop(r, c) ==
    \/ pop_load(r, c)
    \/ pop_stamp(r)
    \/ pop_read(r)
    \/ pop_claim(r)
    \/ pop_resync(r)

\* push_back of the payload of tests::it_works only, with one call more
\* to the run: enough for a cursor to take a message, be overrun and recover.
WriteA(w) ==
    \/ push_begin(w, MsgA, MaxPush + 1)
    \/ push_hi(w)
    \/ push_stamp(w)
    \/ push_ver(w)
    \/ push_idx(w)

\* Every thread, every cursor.
Next ==
    \/ \E w \in Writers : try_lock(w) \/ WriteGuardDrop(w) \/ Write(w)
    \/ \E r \in Readers, c \in CursorIds : reader(r, c) \/ Pop(r, c)
    \/ \E r \in Readers, c, d \in CursorIds : clone(r, c, d)

Spec == Init /\ [][Next]_vars

\* Two threads compete for the guard; one reader pops through its own cursor.
NextLock ==
    \/ \E w \in Writers : try_lock(w) \/ WriteGuardDrop(w) \/ Write(w)
    \/ reader("r1", "c1")
    \/ Pop("r1", "c1")

SpecLock == Init /\ [][NextLock]_vars

\* One writer; one reader with a cursor of its own.
NextSolo ==
    \/ try_lock("w1") \/ WriteGuardDrop("w1") \/ Write("w1")
    \/ reader("r1", "c1")
    \/ Pop("r1", "c1")

SpecSolo == Init /\ [][NextSolo]_vars

\* The state after `let mut writer = buffer.try_lock().unwrap();` by w1 and
\* `let reader = buffer.reader();` by r1 on a new buffer, as in the crate's
\* example, the fuzz target and tests::it_works.
Started ==
    /\ locked = TRUE
    /\ index = new_buffer.index
    /\ version = new_buffer.version
    /\ data = new_buffer.data
    /\ guards = [w \in Writers |-> IF w = "w1" THEN 1 ELSE 0]
    /\ wpc = [w \in Writers |-> "idle"]
    /\ wmsg = [w \in Writers |-> U64Zero]
    /\ rpc = [r \in Readers |-> "idle"]
    /\ rcur = [r \in Readers |-> NoCursor]
    /\ rloc = [r \in Readers |-> [index |-> 0, version |-> 0]]
    /\ robs = [r \in Readers |-> 0]
    /\ rraw = [r \in Readers |-> U64Zero]
    /\ rres = [r \in Readers |-> FALSE]
    /\ rsince = [r \in Readers |-> 0]
    /\ rcnt = [r \in Readers |-> 0]
    /\ rquiet = [r \in Readers |-> TRUE]
    /\ pushed = <<>>
    /\ hist = [c \in CursorIds |-> <<>>]
    /\ users = [c \in CursorIds |-> {}]
    /\ since = [c \in CursorIds |-> 0]
    /\ most = [c \in CursorIds |-> 0]
    /\ cursors = [c \in CursorIds |-> get_reader(new_buffer.version)]

Unborn == [how |-> "none", at |-> 0, from |-> NoCursor, npops |-> 0]
Fresh == [how |-> "reader", at |-> 0, from |-> NoCursor, npops |-> 0]

\* ... and one cursor, made by r1.
InitOne ==
    /\ Started
    /\ made = {"c1"}
    /\ born = [c \in CursorIds |-> IF c = "c1" THEN Fresh ELSE Unborn]
    /\ ret = [t \in Threads |->
                IF t = "w1" THEN Ret("try_lock", TRUE, <<>>)
                ELSE IF t = "r1" THEN Ret("reader", TRUE, <<>>) ELSE NoRet]

\* ... and two cursors, one made by r1 and one by r2.
InitTwo ==
    /\ Started
    /\ made = {"c1", "c2"}
    /\ born = [c \in CursorIds |-> Fresh]
    /\ ret = [t \in Threads |->
                IF t = "w1" THEN Ret("try_lock", TRUE, <<>>)
                ELSE IF t \in Readers THEN Ret("reader", TRUE, <<>>) ELSE NoRet]

\* One writer; two readers pop through one cursor shared by reference.
NextShared ==
    \/ Write("w1")
    \/ \E r \in Readers : Pop(r, "c1")

SpecShared == InitOne /\ [][NextShared]_vars

\* One writer; two readers, each with a cursor made by reader() before any
\* push.
NextIndep ==
    \/ Write("w1")
    \/ Pop("r1", "c1")
    \/ Pop("r2", "c2")

SpecIndep == InitTwo /\ [][NextIndep]_vars

\* One writer; a cursor and its clone, each popped by one reader.
NextClone ==
    \/ Write("w1")
    \/ Pop("r1", "c1")
    \/ clone("r2", "c1", "c2") \/ Pop("r2", "c2")

\* One writer with one payload; two threads steal from each other through
\* one cursor shared by reference.
NextSteal ==
    \/ WriteA("w1")
    \/ Pop("r1", "c1")
    \/ Pop("r2", "c1")

SpecSteal == InitOne /\ [][NextSteal]_vars

SpecClone == InitOne /\ [][NextClone]_vars

\* One writer, which takes the guard and keeps it; one reader thread that
\* makes a cursor, clones it and pops through the clone.
NextReaders ==
    \/ try_lock("w1") \/ Write("w1")
    \/ reader("r1", "c1")
    \/ clone("r1", "c1", "c2") \/ Pop("r1", "c2")

SpecReaders == Init /\ [][NextReaders]_vars

\* ------------------------------------------------------------- properties
RECURSIVE SumGuards(_)
SumGuards(W) ==
    IF W = {} THEN 0
    ELSE LET w == CHOOSE x \in W : TRUE IN guards[w] + SumGuards(W \ {w})

\* The number of live WriteGuards.
LiveGuards == SumGuards(Writers)

\* C1: at most one WriteGuard is live at any time, and every try_lock made
\* while a guard is outstanding returns Err, whichever thread makes it.
C1_WriterExclusive ==
    /\ [](LiveGuards <= 1)
    /\ [][\A w \in Writers :
            (try_lock(w) /\ LiveGuards > 0) =>
                (~ret'[w].ok /\ guards'[w] = guards[w])]_vars

\* C1 witness: w1 holds the guard and w2's try_lock has just come back Err.
C1_Witness ==
    /\ guards["w1"] = 1
    /\ ret["w2"] = Ret("try_lock", FALSE, <<>>)
    /\ ret["w1"] = Ret("try_lock", TRUE, <<>>)

\* C2: `locked` is true exactly while a WriteGuard is outstanding; a
\* try_lock made when none is outstanding (on a new buffer, or after the
\* guard was dropped) returns Ok and hands out the guard.
C2_ReleaseUnlocks ==
    /\ [](locked <=> LiveGuards > 0)
    /\ [][\A w \in Writers :
            (try_lock(w) /\ LiveGuards = 0) =>
                (ret'[w].ok /\ guards'[w] = 1 /\ locked')]_vars

\* C2 witness: w1 dropped its guard and w2's next try_lock returned Ok.
C2_Witness ==
    /\ ret["w1"] = Ret("drop", TRUE, <<>>)
    /\ ret["w2"] = Ret("try_lock", TRUE, <<>>)
    /\ guards["w2"] = 1
    /\ guards["w1"] = 0

\* C3: a try_lock that returns Err changes nothing: not `locked`, the write
\* cursor, the generation, a slot or a cursor, and the guards that are out
\* stay out, their holders where they were (so a holder can still push).
C3_FailedLockNoEffect ==
    [][\A w \in Writers :
         (try_lock(w) /\ ~ret'[w].ok) =>
             UNCHANGED <<locked, index, version, data, made, cursors,
                         guards, wpc, wmsg, pushed>>]_vars

\* C3 witness: w1 holds the guard, its second try_lock returned Err, and it
\* is now in the middle of a push_back (as in tests::it_works).
C3_Witness ==
    /\ guards["w1"] = 1
    /\ ret["w1"] = Ret("try_lock", FALSE, <<>>)
    /\ wpc["w1"] = "stamp"

\* C10: a cursor made by reader() when the buffer's generation is g never
\* returns a message of generation <= g, also when the buffer had wrapped
\* by then; and while no push_back has begun that was not complete at its
\* creation, none of its pop_front calls returns a message.
C10_OnlyTheFuture ==
    \A c \in made :
        born[c].how = "reader" =>
            /\ \A i \in 1..Len(hist[c]) : hist[c][i].gen > born[c].at
            /\ born[c].at = Len(pushed) =>
                   /\ hist[c] = <<>>
                   /\ \A r \in users[c] : ret[r].op = "pop_front" => ~ret[r].ok

\* C10 witness: a cursor made after the ring had wrapped has returned a
\* message, which is the one pushed after it was made.
C10_Witness ==
    /\ born["c1"].how = "reader"
    /\ born["c1"].at >= Capacity
    /\ Len(hist["c1"]) = 1
    /\ hist["c1"][1].gen = born["c1"].at + 1
    /\ hist["c1"][1].out.ok

\* What pop_front hands back for a message whose bytes are m.
Some(m) == Ret("pop_front", TRUE, m)

\* The cursor was popped by at most one thread.
Unshared(c) == Cardinality(users[c]) <= 1

\* Fewer than Capacity pushes happened between any two consecutive
\* pop_front calls through c (and between its creation and the first).
Calm(c) == most[c] < Capacity

\* C4: through a cursor that is not shared, with fewer than capacity pushes
\* between any two consecutive pops, the messages pushed after its creation
\* come back in push order, each exactly once and none skipped: the i-th
\* message the cursor moves past is generation (creation + i), and pop_front
\* returned it with the bytes that were pushed.
C4_NoLossUnderCapacity ==
    \A c \in made :
        (born[c].how = "reader" /\ Unshared(c) /\ Calm(c)) =>
            \A i \in 1..Len(hist[c]) :
                /\ hist[c][i].gen = born[c].at + i
                /\ hist[c][i].out = Some(pushed[born[c].at + i])

\* A cursor that never resynchronized: its generation moved only by the
\* messages consumed through it.
NeverOverrun(c) == cursors[c].version = born[c].at + Len(hist[c])

\* C5: threads that pop through one shared cursor never get the same
\* generation twice, each generation the cursor moves past is delivered to
\* the thread that claimed it, and while the cursor is not overrun what the
\* threads got, taken together, is the published sequence without a gap.
C5_WorkStealing ==
    \A c \in made :
        /\ \A i, j \in 1..Len(hist[c]) : i < j => hist[c][i].gen < hist[c][j].gen
        /\ \A i \in 1..Len(hist[c]) : hist[c][i].out.ok
        /\ NeverOverrun(c) =>
               \A i \in 1..Len(hist[c]) :
                   /\ hist[c][i].gen = born[c].at + i
                   /\ hist[c][i].out = Some(pushed[born[c].at + i])

\* C6: every payload pop_front returns is, byte for byte, the payload that
\* was pushed as the generation whose stamp the reader observed.
C6_NoTornRead ==
    \A c \in made :
        \A i \in 1..Len(hist[c]) :
            hist[c][i].out.ok =>
                /\ hist[c][i].gen \in 1..Len(pushed)
                /\ hist[c][i].out.val = pushed[hist[c][i].gen]

\* C7: a pop_front that begins after more than Capacity pushes with no pop
\* in between returns a message: the bytes pushed as the generation it took,
\* which is one of the last Capacity generations.
C7_OverrunDegrades ==
    \A c \in made :
        \A i \in 1..Len(hist[c]) :
            hist[c][i].over =>
                /\ hist[c][i].out.ok
                /\ hist[c][i].out.val = pushed[hist[c][i].gen]
                /\ hist[c][i].recent

\* The steps that may move cursor c: a pop_front through it, or its making.
MovedByOwnPop(c) ==
    \/ c \notin made
    \/ \E r \in Readers : rcur[r] = c /\ rpc[r] \in {"claim", "resync"}

\* C8: two cursors made separately by reader() have independent state: a
\* step moves a cursor only if it is a pop_front through that very cursor;
\* and if both were made before any push and neither was overrun, each one
\* returns the pushed sequence in order.
C8_IndependentBroadcast ==
    /\ [][\A c \in CursorIds :
            cursors'[c] # cursors[c] => MovedByOwnPop(c)]_vars
    /\ [](\A c \in made :
            (born[c].how = "reader" /\ born[c].at = 0 /\ NeverOverrun(c)) =>
                \A i \in 1..Len(hist[c]) :
                    /\ hist[c][i].gen = i
                    /\ hist[c][i].out = Some(pushed[i]))

\* The messages consumed through c since cursor d was cloned from it.
SinceClone(c, d) == SubSeq(hist[c], born[d].npops + 1, Len(hist[c]))

\* C9: a clone starts with the index and generation the original has at
\* that moment; afterwards a step moves a cursor only if it is a pop_front
\* through that very cursor; and both return every message from the clone's
\* position on, in order, unless overrun.
C9_CloneIndependence ==
    /\ [][\A c, d \in CursorIds :
            clone("r2", c, d) => cursors'[d] = cursors[c]]_vars
    /\ [][\A c \in CursorIds :
            cursors'[c] # cursors[c] => MovedByOwnPop(c)]_vars
    /\ [](\A d \in made :
            born[d].how = "clone" =>
                LET c == born[d].from
                    mine == hist[d]
                    theirs == SinceClone(c, d)
                IN /\ NeverOverrun(d) =>
                          \A i \in 1..Len(mine) :
                              /\ mine[i].gen = born[d].at + i
                              /\ mine[i].out = Some(pushed[born[d].at + i])
                   /\ cursors[c].version = born[d].at + Len(theirs) =>
                          \A i \in 1..Len(theirs) :
                              /\ theirs[i].gen = born[d].at + i
                              /\ theirs[i].out = Some(pushed[born[d].at + i]))

\* The order of the steps of one push_back call.
PushOrder ==
    {<<"idle", "hi">>, <<"hi", "stamp">>, <<"stamp", "ver">>,
     <<"ver", "idx">>, <<"idx", "idle">>}

\* The generations the buffer holds when no push_back is under way.
Held == {g \in 1..version : g + Capacity > version}

\* C11: push_back never blocks and never fails: a thread that holds the
\* guard can always take the next step of push_back, whatever the cursors
\* and the pop_front calls are doing; a call is the same five steps in the
\* same order and returns without a 'full' outcome; and once it has
\* returned the slots hold the last Capacity messages pushed, the older
\* ones overwritten.
C11_PushNeverBlocks ==
    /\ [](\A w \in Writers :
            (guards[w] > 0 /\ (wpc[w] # "idle" \/ Len(pushed) < MaxPush)) =>
                ENABLED Write(w))
    /\ [][\A w \in Writers :
            Write(w) =>
                /\ <<wpc[w], wpc'[w]>> \in PushOrder
                /\ wpc'[w] = "idle" => ret'[w] = Ret("push_back", TRUE, <<>>)]_vars
    /\ []((\A w \in Writers : wpc[w] = "idle") =>
            /\ version = Len(pushed)
            /\ \A g \in Held :
                  data[SlotOf(g - 1)] =
                      [version |-> g, message |-> push_back_arg(pushed[g])])

\* A push_back has returned with a cursor that has consumed nothing and has
\* more than Capacity messages behind it.
C11_Witness ==
    /\ ret["w1"] = Ret("push_back", TRUE, <<>>)
    /\ wpc["w1"] = "idle"
    /\ "c1" \in made
    /\ cursors["c1"].version = 0
    /\ version > Capacity

\* C12: every pop_front call returns after a number of stamp comparisons
\* bounded by a fixed constant, whatever the writer and the other threads
\* of the cursor do meanwhile: a call makes no more comparisons than there
\* are messages pushed in the whole run, however long the run is.
C12_BoundedRetries ==
    [][\A r \in Readers : pop_stamp(r) => rcnt[r] < MaxPush]_vars

\* The pop_front call of reader r has resynchronized its cursor after an
\* overrun and no step of a push_back has run since the call began.
Recovered(r) == rpc[r] # "idle" /\ rres[r] /\ rquiet[r]

\* C13: an overrun is never surfaced: pop_front returns a message or None
\* and nothing else; and when a call has found its cursor overrun and no
\* push_back ran during the call, the comparison after the
\* resynchronization is the equal one and the call returns a message.
C13_OverrunNotSurfaced ==
    /\ [](\A r \in Readers :
            ret[r].op = "pop_front" =>
                \/ ret[r] = Ret("pop_front", FALSE, <<>>)
                \/ ret[r].ok /\ Len(ret[r].val) = MsgLen)
    /\ [][\A r \in Readers :
            (Recovered(r) /\ pop_stamp(r)) => rpc'[r] = "read"]_vars
    /\ [][\A r \in Readers :
            (Recovered(r) /\ rpc'[r] = "idle") => ret'[r].ok]_vars

\* C14: the writer's counters move in lockstep: whenever no push_back is
\* under way, through any number of guards taken and dropped by either
\* thread, the generation is the number of messages pushed and the write
\* cursor has advanced once per message, so both name the same slot; and
\* neither ever decreases.
C14_CountersLockstep ==
    /\ []((\A w \in Writers : wpc[w] = "idle") =>
            /\ version = Len(pushed)
            /\ index = Len(pushed)
            /\ SlotOf(index) = SlotOf(version))
    /\ [][version' >= version /\ index' >= index]_vars

\* A guard has been taken, used or not, and dropped by one thread, and the
\* other thread has pushed under a guard taken after it, wrapping the ring.
C14_Witness ==
    /\ ret["w1"] = Ret("drop", TRUE, <<>>)
    /\ ret["w2"] = Ret("push_back", TRUE, <<>>)
    /\ \A w \in Writers : wpc[w] = "idle"
    /\ version > Capacity

\* The pop_front call of reader r returns None from the stamp comparison.
ReturnsEmpty(r) == pop_stamp(r) /\ rpc'[r] = "idle"

\* Reader r compares stamps for a cursor that has consumed every message
\* pushed, and no push_back has begun since.
CaughtUp(r) ==
    /\ rpc[r] = "stamp"
    /\ rloc[r].version = Len(pushed)
    /\ \A w \in Writers : wpc[w] = "idle"

\* C15: a pop_front that returns None on the stamp comparison has not
\* moved the cursor: the pair is the one the call loaded and the call has
\* not resynchronized it.  So a cursor that has consumed every message
\* pushed returns None on every pop_front until the next push_back, and
\* the pop_front after that push returns the message pushed.
C15_EmptyKeepsCursor ==
    /\ [][\A r \in Readers :
            ReturnsEmpty(r) =>
                /\ ~rres[r]
                /\ cursors'[rcur[r]] = rloc[r]
                /\ cursors'[rcur[r]] = cursors[rcur[r]]]_vars
    /\ [][\A r \in Readers :
            (CaughtUp(r) /\ pop_stamp(r)) =>
                ret'[r] = Ret("pop_front", FALSE, <<>>)]_vars
    /\ [](\A c \in made :
            \A i \in 1..Len(hist[c]) :
                (~hist[c][i].resync /\ hist[c][i].gen = Len(pushed)) =>
                    hist[c][i].out = Some(pushed[hist[c][i].gen]))

\* The pop_front call of reader r resynchronizes its cursor: the
\* compare-and-swap of the overrun branch succeeds.
Resyncs(r) == pop_resync(r) /\ cursors'[rcur[r]] # cursors[rcur[r]]

\* The oldest generation a slot holds.
Stamps == {data[s].version : s \in Slots} \ {0}
OldestHeld == CHOOSE g \in Stamps : \A h \in Stamps : g <= h

ReaderStep ==
    \/ made' # made
    \/ \E r \in Readers : rpc'[r] # rpc[r]

\* A step of push_back by a thread that holds the guard.
WriterStep == \E w \in Writers : guards[w] > 0 /\ wpc'[w] # wpc[w]

\* C17: readers never write the buffer: reader(), clone() and every step
\* of pop_front, the overrun recovery among them, leave the slots, the
\* write cursor, the generation and the lock flag as they are; the slots
\* and the two counters change only in a step of push_back by a thread
\* that holds the guard.
C17_ReadersNeverWrite ==
    /\ [][ReaderStep => UNCHANGED <<data, index, version, locked>>]_vars
    /\ [][(data' # data \/ index' # index \/ version' # version) =>
            WriterStep]_vars

\* A cursor and its clone exist, a pop_front has recovered from an overrun
\* and the buffer still holds what the writer stored.
C17_Witness ==
    /\ made = {"c1", "c2"}
    /\ born["c2"].how = "clone"
    /\ \E c \in made : \E i \in 1..Len(hist[c]) : hist[c][i].resync
    /\ version = Len(pushed)
    /\ version > Capacity

\* C18: every payload can be delivered, the all-0xFF one too: a pop_front
\* that consumes a message returns Some, never None, and when the eight
\* bytes it read are those of the message pushed it returns that message.
C18_EveryPayloadDelivered ==
    \A c \in made :
        \A i \in 1..Len(hist[c]) :
            LET e == hist[c][i]
            IN /\ e.out.ok
               /\ e.raw = push_back_arg(pushed[e.gen]) =>
                      e.out = Some(pushed[e.gen])

C20_NeverAhead ==
    \A c \in made : cursors[c].version <= version

\* A push_back has stored its stamp and not yet incremented the generation.
Publishing == \E w \in Writers : wpc[w] = "ver"

\* C20: the expected generation of a cursor is at most the number of
\* stamps the writer has stored: at most the buffer's generation whenever
\* no push_back is between its stamp store and its generation increment,
\* and at most one more than the generation between the two.
C20_NeverPastStamps ==
    \A c \in made :
        /\ cursors[c].version <= version + 1
        /\ ~Publishing => cursors[c].version <= version

\* A pop_front has taken the message whose stamp is stored while the
\* generation still counts one less.
C20_Witness ==
    /\ Publishing
    /\ "c1" \in made
    /\ cursors["c1"].version = version + 1
    /\ hist["c1"] # <<>>

====
